---- MODULE Spec2Model ----
(***************************************************************************)
(* Model of the simple-storage HTTP service (src/src/main.rs).             *)
(*                                                                         *)
(* The service keeps no state of its own: the state is the file system    *)
(* below the working directory, which the handlers reach through the path *)
(* "uploads/<filename>".  Strings are sequences of one-character strings, *)
(* so that path formatting and path resolution are computed, not assumed. *)
(* Every handler issues its file-system calls without an await between    *)
(* them on a current_thread runtime, so a handler is one atomic action.   *)
(* A panic inside a handler (an unwrap on Err/None) unwinds the           *)
(* connection task: the client receives no HTTP response.                 *)
(*                                                                         *)
(* Spec serves one request after the other.  SpecC serves requests that    *)
(* are in flight together: tasks holds the connection tasks and running    *)
(* the task that holds the runtime's only thread between two awaits.       *)
(***************************************************************************)
EXTENDS Integers, Sequences, FiniteSets, TLC

VARIABLES fs, last, tasks, running

vars == <<fs, last, tasks, running>>

(***************************************************************************)
(* Bounds of the model.                                                    *)
(***************************************************************************)
MaxPayloadLen == 1
MaxFields == 2

(***************************************************************************)
(* HTTP status codes used by the handlers.                                 *)
(***************************************************************************)
OK == 200
CREATED == 201
BAD_REQUEST == 400
NOT_FOUND == 404
INTERNAL_SERVER_ERROR == 500
\* The router's answer to a routed path requested with a method that no
\* handler is registered for.
METHOD_NOT_ALLOWED == 405

(***************************************************************************)
(* Strings.                                                                *)
(***************************************************************************)
Byte == {0, 1}

\* Request payloads: the empty payload and, for every length up to
\* MaxPayloadLen, the payloads that repeat one byte value.
Payloads == {[i \in 1..n |-> b] : n \in 0..MaxPayloadLen, b \in Byte}

UploadsDir == <<"u", "p", "l", "o", "a", "d", "s">>

\* Client-supplied filename strings of the query parameter: a plain name,
\* a name that is a control character, names with "." and ".." segments,
\* the empty string.
Filenames ==
    { <<"a">>,
      <<"\n">>,
      <<".", "/", "a">>,
      <<".", ".", "/", "a">>,
      <<>> }

\* Filenames of multipart fields: two plain names and a nested name.
FieldFilenames ==
    { <<"a">>,
      <<"\n">>,
      <<"a", "/", "a">> }

\* format!("uploads/{}", filename)
FormatUploadPath(filename) == UploadsDir \o <<"/">> \o filename

\* format!("attachment; filename={}", filename)
FormatDisposition(filename) ==
    <<"a", "t", "t", "a", "c", "h", "m", "e", "n", "t", ";", " ",
      "f", "i", "l", "e", "n", "a", "m", "e", "=">> \o filename

\* http::HeaderValue::from_str accepts a byte b iff b >= 32 && b != 127 || b == '\t'.
ControlChars == {"\n", "\r"}

HeaderValueOk(s) == \A i \in 1..Len(s) : s[i] \notin ControlChars

(***************************************************************************)
(* The file system: fs maps the path of every regular file (a sequence of *)
(* components, relative to the working directory) to its content.  The    *)
(* directories are the working directory, its ancestors and "uploads";    *)
(* the service has no operation that creates or removes a directory.      *)
(***************************************************************************)
Dot == <<".">>
DotDot == <<".", ".">>

RECURSIVE SplitPath(_)
\* The components of a path string, split at "/" (empty components kept).
SplitPath(s) ==
    IF \A i \in 1..Len(s) : s[i] # "/"
    THEN <<s>>
    ELSE LET i == CHOOSE j \in 1..Len(s) :
                      s[j] = "/" /\ \A k \in 1..(j - 1) : s[k] # "/"
         IN  <<SubSeq(s, 1, i - 1)>> \o SplitPath(SubSeq(s, i + 1, Len(s)))

IsAncestor(dir) == \A i \in 1..Len(dir) : dir[i] = DotDot

IsDir(p) == p = <<UploadsDir>> \/ IsAncestor(p)

\* The directory reached from dir by one path component, or "none".
StepDir(dir, c) ==
    IF c = <<>> \/ c = Dot THEN [ok |-> TRUE, dir |-> dir]
    ELSE IF c = DotDot
         THEN IF IsAncestor(dir)
              THEN [ok |-> TRUE, dir |-> Append(dir, DotDot)]
              ELSE [ok |-> TRUE, dir |-> SubSeq(dir, 1, Len(dir) - 1)]
    ELSE IF IsDir(Append(dir, c)) THEN [ok |-> TRUE, dir |-> Append(dir, c)]
    ELSE [ok |-> FALSE, dir |-> dir]

RECURSIVE WalkDirs(_, _)
WalkDirs(dir, cs) ==
    IF cs = <<>> THEN [ok |-> TRUE, dir |-> dir]
    ELSE LET r == StepDir(dir, Head(cs))
         IN  IF r.ok THEN WalkDirs(r.dir, Tail(cs)) ELSE r

\* Path resolution of the operating system for a path relative to the
\* working directory: kind is "file" (path names a regular file or a free
\* name in an existing directory), "dir" (it names a directory) or "error"
\* (a prefix component is missing or is not a directory).
Resolve(s) ==
    LET cs == SplitPath(s)
        w == WalkDirs(<<>>, SubSeq(cs, 1, Len(cs) - 1))
        c == cs[Len(cs)]
    IN  IF ~w.ok THEN [kind |-> "error", path |-> <<>>]
        ELSE IF c = <<>> \/ c = Dot \/ c = DotDot \/ IsDir(Append(w.dir, c))
             THEN [kind |-> "dir", path |-> <<>>]
        ELSE [kind |-> "file", path |-> Append(w.dir, c)]

\* The file-system object each request filename names, through the path
\* "uploads/<filename>" (tabulated once for the filenames of the model).
UploadTarget ==
    [n \in Filenames \cup FieldFilenames |-> Resolve(FormatUploadPath(n))]

\* The names read_dir("uploads") yields: the entries of the directory.
DirEntries(f) ==
    {p[2] : p \in {q \in DOMAIN f : Len(q) = 2 /\ q[1] = UploadsDir}}

\* The orders in which a directory iteration may yield a set of names.
Orderings(S) ==
    {sq \in [1..Cardinality(S) -> S] : \A i, j \in 1..Cardinality(S) : sq[i] = sq[j] => i = j}

(***************************************************************************)
(* Responses.  answered = FALSE is a handler that panicked.  headers are   *)
(* the headers the handler puts into its response, as <<name, value>>.     *)
(***************************************************************************)
NoList == <<>>
NoBody == <<>>

Response(status, body, list, headers) ==
    [answered |-> TRUE, status |-> status, body |-> body, list |-> list,
     headers |-> headers]

Panicked ==
    [answered |-> FALSE, status |-> 0, body |-> NoBody, list |-> NoList,
     headers |-> {}]

StatusOnly(status) == Response(status, NoBody, NoList, {})

(***************************************************************************)
(* Option<T> is a set with at most one element: None == {}, Some(x) == {x}.*)
(***************************************************************************)
None == {}
Some(x) == {x}
Unwrap(o) == CHOOSE x \in o : TRUE

(***************************************************************************)
(* File::create, write_all, flush (upload_file lines 60-70, repeated in    *)
(* upload_mul lines 129-139).  File::create fails when the path does not   *)
(* name a regular file or a free name in an existing directory; otherwise  *)
(* it creates the file or truncates it to length 0.  wfail is a write      *)
(* error of the operating system after k bytes were written; write_all of  *)
(* an empty buffer issues no write and flush of a File does nothing, so    *)
(* neither can fail then.                                                  *)
(***************************************************************************)
WithFile(f, path, data) ==
    [p \in DOMAIN f \cup {path} |-> IF p = path THEN data ELSE f[p]]

\* Store with the status of a failed File::create taken for a server error.
Store_CreateErrorIs500(f, filename, data, wfail, k) ==
    LET r == UploadTarget[filename]
    IN  IF r.kind # "file"
        THEN [fs |-> f, resp |-> StatusOnly(INTERNAL_SERVER_ERROR),
              create |-> "err", write |-> "none", existed |-> FALSE]
        ELSE IF wfail /\ k < Len(data)
        THEN [fs |-> WithFile(f, r.path, SubSeq(data, 1, k)),
              resp |-> StatusOnly(INTERNAL_SERVER_ERROR),
              create |-> "ok", write |-> "err", existed |-> r.path \in DOMAIN f]
        ELSE [fs |-> WithFile(f, r.path, data),
              resp |-> StatusOnly(CREATED),
              create |-> "ok", write |-> "ok", existed |-> r.path \in DOMAIN f]

\* f without the file at path.
WithoutFile(f, path) == [p \in DOMAIN f \ {path} |-> f[p]]

\* Store that removes the file when the write fails.
Store_RemovesOnWriteError(f, filename, data, wfail, k) ==
    LET r == UploadTarget[filename]
    IN  IF r.kind # "file"
        THEN [fs |-> f, resp |-> StatusOnly(BAD_REQUEST),
              create |-> "err", write |-> "none", existed |-> FALSE]
        ELSE IF wfail /\ k < Len(data)
        THEN [fs |-> WithoutFile(f, r.path),
              resp |-> StatusOnly(INTERNAL_SERVER_ERROR),
              create |-> "ok", write |-> "err", existed |-> r.path \in DOMAIN f]
        ELSE [fs |-> WithFile(f, r.path, data),
              resp |-> StatusOnly(CREATED),
              create |-> "ok", write |-> "ok", existed |-> r.path \in DOMAIN f]

\* Store with the status of a failed write taken for a client error.
Store_WriteErrorIs400(f, filename, data, wfail, k) ==
    LET r == UploadTarget[filename]
    IN  IF r.kind # "file"
        THEN [fs |-> f, resp |-> StatusOnly(BAD_REQUEST),
              create |-> "err", write |-> "none", existed |-> FALSE]
        ELSE IF wfail /\ k < Len(data)
        THEN [fs |-> WithFile(f, r.path, SubSeq(data, 1, k)),
              resp |-> StatusOnly(BAD_REQUEST),
              create |-> "ok", write |-> "err", existed |-> r.path \in DOMAIN f]
        ELSE [fs |-> WithFile(f, r.path, data),
              resp |-> StatusOnly(CREATED),
              create |-> "ok", write |-> "ok", existed |-> r.path \in DOMAIN f]

Store(f, filename, data, wfail, k) ==
    LET r == UploadTarget[filename]
    IN  IF r.kind # "file"
        THEN [fs |-> f, resp |-> StatusOnly(BAD_REQUEST),
              create |-> "err", write |-> "none", existed |-> FALSE]
        ELSE IF wfail /\ k < Len(data)
        THEN [fs |-> WithFile(f, r.path, SubSeq(data, 1, k)),
              resp |-> StatusOnly(INTERNAL_SERVER_ERROR),
              create |-> "ok", write |-> "err", existed |-> r.path \in DOMAIN f]
        ELSE [fs |-> WithFile(f, r.path, data),
              resp |-> StatusOnly(CREATED),
              create |-> "ok", write |-> "ok", existed |-> r.path \in DOMAIN f]

NoStore(f, resp) ==
    [fs |-> f, resp |-> resp, create |-> "none", write |-> "none", existed |-> FALSE]

(***************************************************************************)
(* The handlers as functions of the file system and the request.           *)
(***************************************************************************)
\* async fn health_check
HealthCheckOutcome(f) == NoStore(f, StatusOnly(OK))

\* async fn handler_404
Handler404Outcome(f) == NoStore(f, StatusOnly(NOT_FOUND))

\* upload_file with a missing filename parameter replaced by a default name.
UploadFileOutcome_DefaultName(f, query, body, wfail, k) ==
    IF query = None
    THEN Store(f, <<"a">>, body, wfail, k)
    ELSE Store(f, Unwrap(query), body, wfail, k)

\* async fn upload_file: query is the "filename" query parameter, if any.
UploadFileOutcome(f, query, body, wfail, k) ==
    IF query = None
    THEN NoStore(f, StatusOnly(BAD_REQUEST))
    ELSE Store(f, Unwrap(query), body, wfail, k)

\* list_upload with the enumeration error surfaced as a server error.
ListUploadOutcome_SurfacesError(f, enumFail, order) ==
    IF enumFail
    THEN NoStore(f, StatusOnly(INTERNAL_SERVER_ERROR))
    ELSE NoStore(f, Response(OK, NoBody, order, {}))

\* async fn list_upload: enumFail is read_dir("uploads") returning Err;
\* order is the order in which the directory iteration yields the entries.
ListUploadOutcome(f, enumFail, order) ==
    IF enumFail
    THEN NoStore(f, Response(OK, NoBody, <<>>, {}))
    ELSE NoStore(f, Response(OK, NoBody, order, {}))

\* async fn download.  fs::read(..).unwrap() and HeaderValue::from_str(..)
\* .unwrap() panic on Err; the header map is built and dropped, the
\* response is (StatusCode::OK, body).
DownloadOutcome(f, query) ==
    IF query = None
    THEN NoStore(f, StatusOnly(BAD_REQUEST))
    ELSE LET filename == Unwrap(query)
             r == UploadTarget[filename]
         IN  IF r.kind # "file" \/ r.path \notin DOMAIN f
             THEN NoStore(f, Panicked)
             ELSE IF ~HeaderValueOk(FormatDisposition(filename))
             THEN NoStore(f, Panicked)
             ELSE NoStore(f, Response(OK, f[r.path], NoList, {}))

\* A part of a multipart stream: ok = FALSE is a part the parser rejects;
\* dataOk = FALSE is a stream that breaks inside the part's data.
Part(ok, name, file_name, content_type, dataOk, data) ==
    [ok |-> ok, name |-> name, file_name |-> file_name,
     content_type |-> content_type, dataOk |-> dataOk, data |-> data]

\* next_field reading on to the last part of the stream.
LastField(form) == form[Len(form)]

\* multipart.next_field(): the first part of the stream.
FirstField(form) == form[1]

\* async fn upload_mul
UploadMulOutcome(f, form, wfail, k) ==
    IF form = <<>>
    THEN NoStore(f, StatusOnly(BAD_REQUEST))
    ELSE LET field == FirstField(form)
         IN  IF ~field.ok THEN NoStore(f, Panicked)
             ELSE IF field.name = None THEN NoStore(f, Panicked)
             ELSE IF field.file_name = None THEN NoStore(f, Panicked)
             ELSE IF field.content_type = None THEN NoStore(f, Panicked)
             ELSE IF ~field.dataOk THEN NoStore(f, Panicked)
             ELSE Store(f, Unwrap(field.file_name), field.data, wfail, k)

(***************************************************************************)
(* The route table of main: Router::new().route(..).fallback(handler_404). *)
(* A path that has a route answers a method without a handler with 405;    *)
(* a path without a route goes to the fallback.                            *)
(***************************************************************************)
Methods == {"GET", "PUT", "POST"}

Paths == {"/", "/upload", "/upload/mul", "/download", "/list"}

UploadPaths == {"/upload", "/upload/mul"}

\* The route table with POST registered beside PUT for the uploads.
Route_PostUploads(method, path) ==
    IF path = "/"
    THEN IF method = "GET" THEN "health_check" ELSE "method_not_allowed"
    ELSE IF path = "/upload"
    THEN IF method \in {"PUT", "POST"} THEN "upload_file"
         ELSE IF method = "GET" THEN "list_upload"
         ELSE "method_not_allowed"
    ELSE IF path = "/upload/mul"
    THEN IF method \in {"PUT", "POST"} THEN "upload_mul" ELSE "method_not_allowed"
    ELSE IF path = "/download"
    THEN IF method = "GET" THEN "download" ELSE "method_not_allowed"
    ELSE "handler_404"

Route(method, path) ==
    IF path = "/"
    THEN IF method = "GET" THEN "health_check" ELSE "method_not_allowed"
    ELSE IF path = "/upload"
    THEN IF method = "PUT" THEN "upload_file"
         ELSE IF method = "GET" THEN "list_upload"
         ELSE "method_not_allowed"
    ELSE IF path = "/upload/mul"
    THEN IF method = "PUT" THEN "upload_mul" ELSE "method_not_allowed"
    ELSE IF path = "/download"
    THEN IF method = "GET" THEN "download" ELSE "method_not_allowed"
    ELSE "handler_404"

\* The requests (method and path) the router hands to a handler.
Routed(kind) ==
    {mp \in Methods \X Paths : Route(mp[1], mp[2]) = kind}

\* The router's own answer: no handler runs.
MethodNotAllowedOutcome(f) == NoStore(f, StatusOnly(METHOD_NOT_ALLOWED))

(***************************************************************************)
(* The requests the model issues.                                          *)
(***************************************************************************)
Queries == {None} \cup {Some(n) : n \in Filenames}

FieldName == <<"f">>
ContentType == <<"t">>

\* First parts: every complete field, and one part for each way a part
\* can be incomplete.
FirstParts ==
    {Part(TRUE, Some(FieldName), Some(n), Some(ContentType), TRUE, d) :
        n \in FieldFilenames, d \in Payloads}
    \cup {Part(FALSE, None, None, None, FALSE, <<>>),
          Part(TRUE, None, Some(<<"a">>), Some(ContentType), TRUE, <<1>>),
          Part(TRUE, Some(FieldName), None, Some(ContentType), TRUE, <<1>>),
          Part(TRUE, Some(FieldName), Some(<<"a">>), None, TRUE, <<1>>),
          Part(TRUE, Some(FieldName), Some(<<"a">>), Some(ContentType), FALSE, <<>>)}

\* Parts that follow the first one: a complete field and a rejected part;
\* a form repeats one of them after its first part.
LaterParts ==
    {Part(TRUE, Some(FieldName), Some(<<"\n">>), Some(ContentType), TRUE, <<1>>),
     Part(FALSE, None, None, None, FALSE, <<>>)}

Forms ==
    {<<>>} \cup
    {<<p>> \o [i \in 1..n |-> q] :
        p \in FirstParts, q \in LaterParts, n \in 0..(MaxFields - 1)}

\* A write error needs a write: the file was created and the buffer is not empty.
WriteFaults(filename, data) ==
    IF filename # None /\ UploadTarget[Unwrap(filename)].kind = "file"
    THEN {<<FALSE, 0>>} \cup {<<TRUE, k>> : k \in 0..(Len(data) - 1)}
    ELSE {<<FALSE, 0>>}

\* The filename and body of the requests the model sends with a method
\* the router refuses: an upload of every payload under a plain name on
\* the upload paths, nothing on the other paths.
RefusedInputs(path) ==
    IF path \in UploadPaths
    THEN {<<Some(<<"a">>), d>> : d \in Payloads}
    ELSE {<<None, <<>>>>}

Request(mp, kind, filename, body, nfields, enumFail) ==
    [method |-> mp[1], path |-> mp[2], kind |-> kind, filename |-> filename,
     body |-> body, nfields |-> nfields, enumFail |-> enumFail]

\* The record of the last request: its inputs and what the handler did.
\* rival is the payload of an upload under the same filename that was in
\* flight together with this request and was answered with 201 before it.
Record(req, out) ==
    [method |-> req.method, path |-> req.path,
     kind |-> req.kind, filename |-> req.filename, body |-> req.body,
     nfields |-> req.nfields, enumFail |-> req.enumFail,
     create |-> out.create, write |-> out.write, existed |-> out.existed,
     rival |-> None, resp |-> out.resp]

\* The connection tasks of requests in flight together.
TaskIds == {"t1", "t2"}

IdleTask == [pc |-> "idle", kind |-> "none", body |-> <<>>, existed |-> FALSE,
             rival |-> None]

Init ==
    /\ fs = [p \in {} |-> <<>>]
    /\ last = Record(Request(<<"GET", "/">>, "start", None, <<>>, 0, FALSE),
                     NoStore(fs, StatusOnly(OK)))
    /\ tasks = [t \in TaskIds |-> IdleTask]
    /\ running = "none"

health_check ==
    \E mp \in Routed("health_check") :
        LET out == HealthCheckOutcome(fs)
        IN  /\ fs' = out.fs
            /\ last' = Record(Request(mp, "health_check", None, <<>>, 0, FALSE), out)
            /\ UNCHANGED <<tasks, running>>

handler_404 ==
    \E mp \in Routed("handler_404") :
        LET out == Handler404Outcome(fs)
        IN  /\ fs' = out.fs
            /\ last' = Record(Request(mp, "handler_404", None, <<>>, 0, FALSE), out)
            /\ UNCHANGED <<tasks, running>>

method_not_allowed ==
    \E mp \in Routed("method_not_allowed") :
        \E in \in RefusedInputs(mp[2]) :
            LET out == MethodNotAllowedOutcome(fs)
            IN  /\ fs' = out.fs
                /\ last' = Record(Request(mp, "method_not_allowed", in[1], in[2],
                                          0, FALSE), out)
                /\ UNCHANGED <<tasks, running>>

upload_file ==
    \E mp \in Routed("upload_file"), query \in Queries, body \in Payloads :
        \E w \in WriteFaults(query, body) :
            LET out == UploadFileOutcome(fs, query, body, w[1], w[2])
            IN  /\ fs' = out.fs
                /\ last' = Record(Request(mp, "upload_file", query, body, 0, FALSE), out)
                /\ UNCHANGED <<tasks, running>>

list_upload ==
    \E mp \in Routed("list_upload"), enumFail \in BOOLEAN,
       order \in Orderings(DirEntries(fs)) :
        LET out == ListUploadOutcome(fs, enumFail, order)
        IN  /\ fs' = out.fs
            /\ last' = Record(Request(mp, "list_upload", None, <<>>, 0, enumFail), out)
            /\ UNCHANGED <<tasks, running>>

download ==
    \E mp \in Routed("download"), query \in Queries :
        LET out == DownloadOutcome(fs, query)
        IN  /\ fs' = out.fs
            /\ last' = Record(Request(mp, "download", query, <<>>, 0, FALSE), out)
            /\ UNCHANGED <<tasks, running>>

\* The filename and the payload of the first part a multipart form
\* submits, if any.
FormFilename(form) == IF form = <<>> THEN None ELSE form[1].file_name

FormData(form) == IF form = <<>> THEN <<>> ELSE form[1].data

upload_mul ==
    \E mp \in Routed("upload_mul"), form \in Forms :
        \E w \in WriteFaults(FormFilename(form), FormData(form)) :
            LET out == UploadMulOutcome(fs, form, w[1], w[2])
            IN  /\ fs' = out.fs
                /\ last' = Record(Request(mp, "upload_mul", FormFilename(form),
                                          FormData(form), Len(form), FALSE), out)
                /\ UNCHANGED <<tasks, running>>

Next ==
    \/ health_check
    \/ handler_404
    \/ method_not_allowed
    \/ upload_file
    \/ list_upload
    \/ download
    \/ upload_mul

Spec == Init /\ [][Next]_vars

(***************************************************************************)
(* Requests in flight together.  axum::serve spawns one task per           *)
(* connection on the current_thread runtime, so one thread runs all of     *)
(* them and a task gives the thread up only at an await.  A task's pc is   *)
(* the program point it has reached:                                       *)
(*   "body"        upload_file, the Bytes extractor awaits the body;       *)
(*   "next_field"  upload_mul, at multipart.next_field().await;            *)
(*   "bytes"       upload_mul, at field.bytes().await;                     *)
(*   "created"     either upload, File::create has returned and write_all  *)
(*                 has not yet been called;                                *)
(*   "ready"       download, spawned and not yet polled.                   *)
(* The requests name one file, so that every pair of them meets on it.     *)
(***************************************************************************)
InFlightName == <<"a">>

InFlightPath == UploadTarget[InFlightName].path

InFlightKinds == {"upload_file", "upload_mul", "download"}

FirstPoint(kind) ==
    CASE kind = "upload_file" -> "body"
      [] kind = "upload_mul" -> "next_field"
      [] OTHER -> "ready"

\* A file API whose calls are awaits would let other tasks run between
\* File::create and write_all.
AwaitPoint_AsyncFile(pc) == TRUE

\* The program points at which the task is suspended in an await.  The
\* handlers call std::fs and std::io::Write, which block the thread: no
\* await separates File::create from write_all and flush.
AwaitPoint(pc) == pc # "created"

\* A runtime that may poll another task at every program point.
Holder_Released(t, pc) == "none"

\* Who holds the thread when task t has reached pc.
Holder(t, pc) == IF AwaitPoint(pc) THEN "none" ELSE t

Runnable(t) == running \in {"none", t}

\* write_all through a descriptor at offset 0: the first n bytes of data
\* replace the first n bytes of the file's content.
WriteAt(cur, data, n) == SubSeq(data, 1, n) \o SubSeq(cur, n + 1, Len(cur))

\* What write_all and flush leave and answer: all of data, or its first k
\* bytes and an error.
WriteOutcome(f, data, existed, wfail, k) ==
    IF wfail /\ k < Len(data)
    THEN [fs |-> WithFile(f, InFlightPath, WriteAt(f[InFlightPath], data, k)),
          resp |-> StatusOnly(INTERNAL_SERVER_ERROR),
          create |-> "ok", write |-> "err", existed |-> existed]
    ELSE [fs |-> WithFile(f, InFlightPath, WriteAt(f[InFlightPath], data, Len(data))),
          resp |-> StatusOnly(CREATED),
          create |-> "ok", write |-> "ok", existed |-> existed]

\* The tasks after upload t has been answered with status: the uploads
\* still in flight have a rival once t was answered with 201.
AfterUpload(t, status) ==
    [u \in TaskIds |->
        IF u = t THEN IdleTask
        ELSE IF status = CREATED /\ tasks[u].kind \in {"upload_file", "upload_mul"}
        THEN [tasks[u] EXCEPT !.rival = Some(tasks[t].body)]
        ELSE tasks[u]]

\* The server accepts a connection and spawns the task of its request.
accept(t) ==
    /\ running = "none"
    /\ tasks[t].pc = "idle"
    /\ \E kind \in InFlightKinds, body \in Payloads :
          /\ kind = "download" => body = <<>>
          /\ tasks' = [tasks EXCEPT ![t] = [pc |-> FirstPoint(kind), kind |-> kind,
                                            body |-> body, existed |-> FALSE,
                                            rival |-> None]]
    /\ UNCHANGED <<fs, last, running>>

\* upload_file from the arrival of the body to the return of File::create.
upload_file_create(t) ==
    /\ Runnable(t)
    /\ tasks[t].kind = "upload_file" /\ tasks[t].pc = "body"
    /\ fs' = WithFile(fs, InFlightPath, <<>>)
    /\ tasks' = [tasks EXCEPT ![t].pc = "created",
                              ![t].existed = InFlightPath \in DOMAIN fs]
    /\ running' = Holder(t, "created")
    /\ UNCHANGED last

\* upload_file from write_all to its response.
upload_file_write(t) ==
    /\ Runnable(t)
    /\ tasks[t].kind = "upload_file" /\ tasks[t].pc = "created"
    /\ \E mp \in Routed("upload_file"),
          w \in WriteFaults(Some(InFlightName), tasks[t].body) :
          LET out == WriteOutcome(fs, tasks[t].body, tasks[t].existed, w[1], w[2])
          IN  /\ fs' = out.fs
              /\ last' = [Record(Request(mp, "upload_file", Some(InFlightName),
                                         tasks[t].body, 0, FALSE), out)
                            EXCEPT !.rival = tasks[t].rival]
              /\ tasks' = AfterUpload(t, out.resp.status)
    /\ running' = "none"

\* upload_mul from the arrival of the first field to field.bytes().
upload_mul_next_field(t) ==
    /\ Runnable(t)
    /\ tasks[t].kind = "upload_mul" /\ tasks[t].pc = "next_field"
    /\ tasks' = [tasks EXCEPT ![t].pc = "bytes"]
    /\ running' = Holder(t, "bytes")
    /\ UNCHANGED <<fs, last>>

\* upload_mul from the arrival of the field's data to the return of
\* File::create.
upload_mul_create(t) ==
    /\ Runnable(t)
    /\ tasks[t].kind = "upload_mul" /\ tasks[t].pc = "bytes"
    /\ fs' = WithFile(fs, InFlightPath, <<>>)
    /\ tasks' = [tasks EXCEPT ![t].pc = "created",
                              ![t].existed = InFlightPath \in DOMAIN fs]
    /\ running' = Holder(t, "created")
    /\ UNCHANGED last

\* upload_mul from write_all to its response.
upload_mul_write(t) ==
    /\ Runnable(t)
    /\ tasks[t].kind = "upload_mul" /\ tasks[t].pc = "created"
    /\ \E mp \in Routed("upload_mul"),
          w \in WriteFaults(Some(InFlightName), tasks[t].body) :
          LET out == WriteOutcome(fs, tasks[t].body, tasks[t].existed, w[1], w[2])
          IN  /\ fs' = out.fs
              /\ last' = [Record(Request(mp, "upload_mul", Some(InFlightName),
                                         tasks[t].body, 1, FALSE), out)
                            EXCEPT !.rival = tasks[t].rival]
              /\ tasks' = AfterUpload(t, out.resp.status)
    /\ running' = "none"

\* download, which has no await: the whole handler in one poll.
download_serve(t) ==
    /\ Runnable(t)
    /\ tasks[t].kind = "download" /\ tasks[t].pc = "ready"
    /\ \E mp \in Routed("download") :
          LET out == DownloadOutcome(fs, Some(InFlightName))
          IN  /\ fs' = out.fs
              /\ last' = Record(Request(mp, "download", Some(InFlightName),
                                        <<>>, 0, FALSE), out)
    /\ tasks' = [tasks EXCEPT ![t] = IdleTask]
    /\ running' = "none"

NextC ==
    \/ \E t \in TaskIds : accept(t)
    \/ \E t \in TaskIds : upload_file_create(t)
    \/ \E t \in TaskIds : upload_file_write(t)
    \/ \E t \in TaskIds : upload_mul_next_field(t)
    \/ \E t \in TaskIds : upload_mul_create(t)
    \/ \E t \in TaskIds : upload_mul_write(t)
    \/ \E t \in TaskIds : download_serve(t)

SpecC == Init /\ [][NextC]_vars

(***************************************************************************)
(* Vocabulary of the properties.                                           *)
(***************************************************************************)
Uploads == {"upload_file", "upload_mul"}

Answered(r, status) == r.resp.answered /\ r.resp.status = status

\* The request r named a filename and the handler answered it with 201.
Stored(r) == r.kind \in Uploads /\ r.filename # None /\ Answered(r, CREATED)

\* The elements of a listing, and how often a name occurs in it.
Elems(list) == {list[i] : i \in 1..Len(list)}

Occurrences(list, n) == Cardinality({i \in 1..Len(list) : list[i] = n})

\* The file the filename of request r names, if it names one.
Names(r) == UploadTarget[Unwrap(r.filename)]

Present(f, r) == Names(r).kind = "file" /\ Names(r).path \in DOMAIN f

(***************************************************************************)
(* C1.  Round trip: when an upload of payload p under filename f has been  *)
(* answered with 201 and the next request is a download of f, the download *)
(* is answered with 200 and a body equal to p.                             *)
(***************************************************************************)
C1_RoundTrip ==
    [][(Stored(last) /\ last'.kind = "download" /\ last'.filename = last.filename)
          => (Answered(last', OK) /\ last'.resp.body = last.body)]_vars

(***************************************************************************)
(* C2.  Overwrite: when an upload of p2 under a filename f that already    *)
(* held a file has been answered with 201, a download of f that follows    *)
(* returns p2 and a listing that follows contains f exactly once.          *)
(***************************************************************************)
C2_Overwrite ==
    [][(Stored(last) /\ last.existed)
          => /\ (last'.kind = "download" /\ last'.filename = last.filename)
                   => (Answered(last', OK) /\ last'.resp.body = last.body)
             /\ (last'.kind = "list_upload" /\ ~last'.enumFail)
                   => Occurrences(last'.resp.list, Unwrap(last.filename)) = 1]_vars

(***************************************************************************)
(* C3.  Listing completeness: a listing whose enumeration succeeds, right  *)
(* after an upload under filename f was answered with 201, contains f, for *)
(* every filename string.                                                  *)
(***************************************************************************)
C3_ListingContainsUploaded ==
    [][(Stored(last) /\ last'.kind = "list_upload" /\ ~last'.enumFail)
          => Unwrap(last.filename) \in Elems(last'.resp.list)]_vars

(***************************************************************************)
(* C4.  Unknown file: a download that names a filename whose file cannot   *)
(* be read (it does not exist, or the path names a directory) is answered  *)
(* with 404 and leaves the storage unchanged.                              *)
(***************************************************************************)
C4_UnknownFileIs404 ==
    [][(last'.kind = "download" /\ last'.filename # None /\ ~Present(fs, last'))
          => (Answered(last', NOT_FOUND) /\ fs' = fs)]_vars

(***************************************************************************)
(* C5.  Missing parameter: a raw-body upload or a download without the     *)
(* filename query parameter is answered with 400, whatever the body and    *)
(* the storage, and leaves the storage unchanged.                          *)
(***************************************************************************)
C5_MissingParameter ==
    [][(last'.kind \in {"upload_file", "download"} /\ last'.filename = None)
          => (Answered(last', BAD_REQUEST) /\ fs' = fs)]_vars

\* A raw-body upload without filename was rejected although it carried a
\* payload and the storage held files.
C5_Witness ==
    /\ last.kind = "upload_file"
    /\ last.filename = None
    /\ last.body # <<>>
    /\ fs # <<>>
    /\ Answered(last, BAD_REQUEST)

(***************************************************************************)
(* C6.  Every download answered with 200 carries the header                *)
(* Content-Disposition: attachment; filename=<f>, with f verbatim, and     *)
(* the bytes of the file as body.                                          *)
(***************************************************************************)
C6_ContentDisposition ==
    (last.kind = "download" /\ Answered(last, OK))
        => /\ <<"content-disposition", FormatDisposition(Unwrap(last.filename))>>
                  \in last.resp.headers
           /\ last.resp.body = fs[Names(last).path]

(***************************************************************************)
(* C7.  Multipart first-field rule.  As claimed: a multipart upload with   *)
(* two or more fields stores exactly the first field's payload under the   *)
(* first field's filename and is answered with 201.  Stated for the        *)
(* uploads the handler answers.                                            *)
(***************************************************************************)
C7_StoresFirstAndCreated ==
    [][(last'.kind = "upload_mul" /\ last'.nfields >= 2 /\ last'.resp.answered)
          => /\ Answered(last', CREATED)
             /\ fs' = WithFile(fs, Names(last').path, last'.body)]_vars

\* s is a proper prefix of t.
ProperPrefix(s, t) == Len(s) < Len(t) /\ s = SubSeq(t, 1, Len(s))

(***************************************************************************)
(* C7, amended.  A multipart upload with two or more fields has the        *)
(* response and the storage effect of the upload of its first field alone: *)
(* when it is answered with 201, exactly the first field's payload is      *)
(* stored under the first field's filename and no other file changes; when *)
(* it is not, no file changes except that the first field's file may hold  *)
(* a proper prefix of the first field's payload; the data of later fields  *)
(* is never persisted and later parts do not change the response.          *)
(***************************************************************************)
C7_FirstFieldRule ==
    /\ [][(last'.kind = "upload_mul" /\ last'.nfields >= 2)
             => /\ Answered(last', CREATED)
                      => fs' = WithFile(fs, Names(last').path, last'.body)
                /\ ~Answered(last', CREATED)
                      => \/ fs' = fs
                         \/ /\ last'.filename # None
                            /\ Names(last').kind = "file"
                            /\ \E d \in Payloads :
                                  /\ ProperPrefix(d, last'.body)
                                  /\ fs' = WithFile(fs, Names(last').path, d)]_vars
    /\ [](\A form \in Forms :
             Len(form) >= 2 =>
                 \A w \in WriteFaults(FormFilename(form), FormData(form)) :
                     UploadMulOutcome(fs, form, w[1], w[2])
                         = UploadMulOutcome(fs, <<form[1]>>, w[1], w[2]))

\* A two-field upload stored the first field's payload under the first
\* field's filename; nothing exists under the later field's filename.
C7_Witness ==
    /\ last.kind = "upload_mul"
    /\ last.nfields >= 2
    /\ Answered(last, CREATED)
    /\ last.filename = Some(<<"a">>)
    /\ last.body = <<0>>
    /\ fs = WithFile(<<>>, <<UploadsDir, <<"a">>>>, <<0>>)

(***************************************************************************)
(* C8.  Empty listing: the listing handler always answers with 200; its    *)
(* array is empty while the storage holds no file and when the enumeration *)
(* of the storage root fails.                                              *)
(***************************************************************************)
C8_EmptyListing ==
    last.kind = "list_upload"
        => /\ Answered(last, OK)
           /\ fs = <<>> => last.resp.list = <<>>
           /\ last.enumFail => last.resp.list = <<>>

\* A listing whose enumeration failed while the storage root held a file.
C8_Witness ==
    /\ last.kind = "list_upload"
    /\ last.enumFail
    /\ DirEntries(fs) # {}
    /\ Answered(last, OK)
    /\ last.resp.list = <<>>

(***************************************************************************)
(* C9.  Upload status classification, for both upload handlers when the    *)
(* request names a filename: the answer is 201 exactly when File::create,  *)
(* write_all and flush succeeded, 400 exactly when File::create failed,    *)
(* 500 exactly when File::create succeeded and the write failed; no other  *)
(* status is produced.  File::create fails exactly when the path           *)
(* uploads/<filename> names no file; after 201 the file holds the payload. *)
(***************************************************************************)
C9_UploadStatus ==
    (last.kind \in Uploads /\ last.filename # None)
        => /\ Answered(last, CREATED) <=> (last.create = "ok" /\ last.write = "ok")
           /\ Answered(last, BAD_REQUEST) <=> last.create = "err"
           /\ Answered(last, INTERNAL_SERVER_ERROR)
                 <=> (last.create = "ok" /\ last.write = "err")
           /\ last.resp.answered
                 => last.resp.status \in {CREATED, BAD_REQUEST, INTERNAL_SERVER_ERROR}
           /\ last.create = "err" => Names(last).kind # "file"
           /\ last.create = "ok" => Present(fs, last)
           /\ Answered(last, CREATED) => fs[Names(last).path] = last.body

\* A multipart upload whose write failed after the file was created.
C9_Witness ==
    /\ last.kind = "upload_mul"
    /\ last.create = "ok"
    /\ last.write = "err"
    /\ Answered(last, INTERNAL_SERVER_ERROR)

(***************************************************************************)
(* C10.  Every request is answered: every handler invocation ends with one *)
(* HTTP status returned to the client.                                     *)
(***************************************************************************)
C10_EveryRequestAnswered ==
    last.kind # "start" => last.resp.answered

(***************************************************************************)
(* C11.  Multipart validation: a multipart upload whose stream yields no   *)
(* field, or whose first part is rejected by the parser or carries no      *)
(* filename, is answered with 400 and leaves the storage unchanged.        *)
(***************************************************************************)
C11_MultipartValidation ==
    [][(last'.kind = "upload_mul" /\ last'.filename = None)
          => (Answered(last', BAD_REQUEST) /\ fs' = fs)]_vars

(***************************************************************************)
(* C12.  The field name and the content type of a multipart field are      *)
(* informational: two uploads whose first fields have the same filename    *)
(* and payload and differ only in the field name or in the presence or the *)
(* value of the content type have the same response and leave the same     *)
(* storage.                                                                *)
(***************************************************************************)
OtherFieldName == <<"g">>
OtherContentType == <<"u">>

\* The fields that differ from field p in nothing but the name's value and
\* the content type's presence or value.
InformationalVariants(p) ==
    {Part(p.ok, name, p.file_name, ct, p.dataOk, p.data) :
        name \in {Some(FieldName), Some(OtherFieldName)},
        ct \in {None, Some(ContentType), Some(OtherContentType)}}

CompleteParts ==
    {p \in FirstParts : p.ok /\ p.name # None /\ p.file_name # None
                             /\ p.content_type # None /\ p.dataOk}

C12_InformationalFields ==
    \A p \in CompleteParts :
        \A q \in InformationalVariants(p) :
            \A w \in WriteFaults(p.file_name, p.data) :
                LET a == UploadMulOutcome(fs, <<p>>, w[1], w[2])
                    b == UploadMulOutcome(fs, <<q>>, w[1], w[2])
                IN  a.resp = b.resp /\ a.fs = b.fs

(***************************************************************************)
(* C13.  As claimed: the uploads are accepted under POST as under PUT: a   *)
(* POST to /upload or /upload/mul with a filename whose destination can be *)
(* written stores the payload and is answered with 201.                    *)
(***************************************************************************)
C13_PostAccepted ==
    [][(/\ last'.method = "POST"
        /\ last'.path \in UploadPaths
        /\ last'.filename # None
        /\ Names(last').kind = "file")
          => /\ Answered(last', CREATED)
             /\ fs' = WithFile(fs, Names(last').path, last'.body)]_vars

(***************************************************************************)
(* C13, amended.  The uploads are routed under PUT only.  A PUT to         *)
(* /upload or /upload/mul reaches the upload handler and, when the handler *)
(* answers, the filename's destination can be written and the write does   *)
(* not fail, stores the payload and is answered with 201; a POST to either *)
(* path is answered with 405 by the router, runs no handler and leaves the *)
(* storage unchanged.                                                      *)
(***************************************************************************)
C13_PutOnly ==
    [][/\ (/\ last'.method = "PUT"
           /\ last'.path \in UploadPaths
           /\ last'.resp.answered
           /\ last'.filename # None
           /\ Names(last').kind = "file"
           /\ last'.write # "err")
             => /\ last'.kind \in Uploads
                /\ Answered(last', CREATED)
                /\ fs' = WithFile(fs, Names(last').path, last'.body)
       /\ (last'.method = "POST" /\ last'.path \in UploadPaths)
             => /\ last'.kind = "method_not_allowed"
                /\ Answered(last', METHOD_NOT_ALLOWED)
                /\ fs' = fs]_vars

\* A POST upload with a filename and a payload was refused while the
\* storage held a file.
C13_Witness ==
    /\ last.method = "POST"
    /\ last.path = "/upload"
    /\ last.filename = Some(<<"a">>)
    /\ last.body # <<>>
    /\ Answered(last, METHOD_NOT_ALLOWED)
    /\ fs # <<>>

(***************************************************************************)
(* C14.  As claimed: once an upload under filename f has been answered     *)
(* with 201, every later listing contains f.  Stated for the listing that  *)
(* follows the upload and for the filenames that are the name of their     *)
(* file in the storage root.                                               *)
(***************************************************************************)
PlainName(r) == Names(r).kind = "file" /\ Names(r).path = <<UploadsDir, Unwrap(r.filename)>>

Truncating(t) ==
    /\ tasks[t].kind \in Uploads
    /\ tasks[t].pc = "created"
    /\ tasks[t].existed

C16_LastWriterWins ==
    (running = "none" /\ Stored(last) /\ last.rival # None)
        => /\ InFlightPath \in DOMAIN fs
           /\ fs[InFlightPath] = last.body

\* Two uploads of different payloads overlapped and both were answered
\* with 201.
C16_Witness ==
    /\ running = "none"
    /\ Stored(last)
    /\ last.rival # None
    /\ Unwrap(last.rival) # last.body
    /\ last.body # <<>>
    /\ fs[InFlightPath] = last.body

(***************************************************************************)
(* C17.  Read-only and rejected requests do not touch the storage: a       *)
(* download, a listing, a health check, a fallback request, a request the  *)
(* router refuses and every upload answered with 400 leave the set of      *)
(* stored files and the content of every file as they were.                *)
(***************************************************************************)
ReadOnlyKinds ==
    {"download", "list_upload", "health_check", "handler_404", "method_not_allowed"}

C17_ReadOnlyFrame ==
    [][(\/ last'.kind \in ReadOnlyKinds
        \/ (last'.kind \in Uploads /\ Answered(last', BAD_REQUEST)))
          => fs' = fs]_vars

\* An upload that named a filename was answered with 400 while the storage
\* held files.
C17_Witness ==
    /\ last.kind \in Uploads
    /\ last.filename # None
    /\ last.body # <<>>
    /\ Answered(last, BAD_REQUEST)
    /\ fs # <<>>

(***************************************************************************)
(* C18.  Key isolation: an upload under filename f changes at most what f  *)
(* retrieves: for every other filename g, whether g exists and what a      *)
(* download of g returns are the same after the upload as before it.       *)
(***************************************************************************)
C18_KeyIsolation ==
    [][(last'.kind \in Uploads /\ last'.filename # None)
          => \A g \in (Filenames \cup FieldFilenames) \ last'.filename :
                 /\ DownloadOutcome(fs', Some(g)).resp = DownloadOutcome(fs, Some(g)).resp
                 /\ (UploadTarget[g].kind = "file"
                       => (UploadTarget[g].path \in DOMAIN fs'
                              <=> UploadTarget[g].path \in DOMAIN fs))]_vars

====
